---- MODULE Spec2Model ----
(***************************************************************************)
(* Verification model of the Tempered authentication engine: JwtScheme     *)
(* (login / 2FA / elevation / revocation), the token codec and validator,  *)
(* the storage ports (user table, ban set, pending-2FA table) and the      *)
(* handlers and use cases that compose them.                               *)
(***************************************************************************)
EXTENDS Integers, FiniteSets, Sequences, TLC

\* ------------------------------------------------------------------------
\* Bounds of the model
\* ------------------------------------------------------------------------
MaxTime == 3
MaxAttempts == 2
MaxIssued == 3
MaxBans == 2
MaxSignups == 2
MaxVerifies == 2
\* scaled stand-ins for the widths of the time library: the largest number of
\* seconds a Duration holds, the largest timestamp a DateTime holds, and the
\* largest TTL handed to the issuing function
MaxDurationSeconds == 3
MaxDateTimeSeconds == 5
MaxTtlInput == 4

\* ------------------------------------------------------------------------
\* Program constants. Time is counted in units of the codec's expiry leeway;
\* the TTLs are configuration values, the elevated one the shorter, and the
\* ban store is constructed with the regular token's TTL.
\* ------------------------------------------------------------------------
TokenTtl == 2
ElevatedTtl == 1
Leeway == 1
BanTtl == TokenTtl

Emails == {"a@b.com", "c@d.com"}
Passwords == {"Password1", "Password2"}
InvalidEmail == "not-an-email"
InvalidPassword == "short"
RawEmails == Emails \cup {InvalidEmail}
RawPasswords == Passwords \cup {InvalidPassword}
Codes == {"111111", "222222"}
AttemptIds == 1..MaxAttempts

jwt_config ==
  [jwt_cookie_name |-> "jwt", jwt_secret |-> "secret", token_ttl_in_seconds |-> TokenTtl]
elevated_jwt_config ==
  [jwt_cookie_name |-> "elevated_jwt", jwt_secret |-> "elevated_secret",
   token_ttl_in_seconds |-> ElevatedTtl]

VARIABLES users, codes, banned, issued, now, nextAttempt, last, inflight
vars == <<users, codes, banned, issued, now, nextAttempt, last, inflight>>

\* ------------------------------------------------------------------------
\* Token codec
\* ------------------------------------------------------------------------
NoClaims == [sub |-> "none", exp |-> 0]
NoToken == [sig |-> "absent", sub |-> "none", exp |-> 0]
InvalidTokenString == [sig |-> "none", sub |-> "invalid_token", exp |-> 0]

\* HS256 signing is deterministic: the token is a function of claims and secret
create_token_shifted(claims, secret) ==
  [sig |-> secret, sub |-> claims.sub, exp |-> claims.exp + 1]

create_token(claims, secret) ==
  [sig |-> secret, sub |-> claims.sub, exp |-> claims.exp]

generate_auth_token_subtracting(email, token_ttl_seconds, secret, t) ==
  create_token([sub |-> email, exp |-> t - token_ttl_seconds], secret)

generate_auth_token(email, token_ttl_seconds, secret, t) ==
  create_token([sub |-> email, exp |-> t + token_ttl_seconds], secret)

generate_auth_token_result_wrapping(email, token_ttl_seconds, secret, t) ==
  [result |-> "Ok",
   token |-> create_token([sub |-> email,
                           exp |-> (t + token_ttl_seconds) % (MaxDateTimeSeconds + 1)],
                          secret)]

\* generate_auth_token with its failure exits: Duration::try_seconds,
\* checked_add_signed, and the conversion of the timestamp to usize
generate_auth_token_result(email, token_ttl_seconds, secret, t) ==
  IF token_ttl_seconds > MaxDurationSeconds \/ token_ttl_seconds < 0 - MaxDurationSeconds
  THEN [result |-> "UnexpectedError", token |-> NoToken]
  ELSE IF t + token_ttl_seconds > MaxDateTimeSeconds
  THEN [result |-> "UnexpectedError", token |-> NoToken]
  ELSE IF t + token_ttl_seconds < 0
  THEN [result |-> "UnexpectedError", token |-> NoToken]
  ELSE [result |-> "Ok", token |-> generate_auth_token(email, token_ttl_seconds, secret, t)]

\* Cookie::build((cookie_name, token)) with the attributes of create_auth_cookie
create_auth_cookie(token, cookie_name) ==
  [name |-> cookie_name, value |-> token, path |-> "/", http_only |-> TRUE,
   secure |-> TRUE, same_site |-> "Lax"]

\* generate_auth_cookie: the second argument handed to create_auth_cookie is
\* config.jwt_secret.expose_secret()
generate_auth_cookie(email, config, t) ==
  create_auth_cookie(
    generate_auth_token(email, config.token_ttl_in_seconds, config.jwt_secret, t),
    config.jwt_secret)

\* jsonwebtoken::decode with Validation::default(): structure, then signature,
\* then the exp claim with the default leeway
decode_unverified(token, secret, t) ==
  IF token.sig \in {"none", "absent"}
  THEN [ok |-> FALSE, err |-> "InvalidToken", claims |-> NoClaims]
  ELSE IF token.exp < t - Leeway
  THEN [ok |-> FALSE, err |-> "ExpiredSignature", claims |-> NoClaims]
  ELSE [ok |-> TRUE, err |-> "none", claims |-> [sub |-> token.sub, exp |-> token.exp]]

decode(token, secret, t) ==
  IF token.sig \in {"none", "absent"}
  THEN [ok |-> FALSE, err |-> "InvalidToken", claims |-> NoClaims]
  ELSE IF token.sig # secret
  THEN [ok |-> FALSE, err |-> "InvalidSignature", claims |-> NoClaims]
  ELSE IF token.exp < t - Leeway
  THEN [ok |-> FALSE, err |-> "ExpiredSignature", claims |-> NoClaims]
  ELSE [ok |-> TRUE, err |-> "none", claims |-> [sub |-> token.sub, exp |-> token.exp]]

\* ------------------------------------------------------------------------
\* BannedTokenStore (key-value store with expiring keys)
\* ------------------------------------------------------------------------
ban_token_short_lived(store, token, t) ==
  {b \in store : b.token # token} \cup {[token |-> token, expires |-> t + ElevatedTtl]}

ban_token(store, token, t) ==
  {b \in store : b.token # token} \cup {[token |-> token, expires |-> t + BanTtl]}

contains_token_by_claims(store, token) ==
  \E b \in store : b.token.sub = token.sub /\ b.token.exp = token.exp

contains_token(store, token) == \E b \in store : b.token = token

expire_keys(store, t) == {b \in store : b.expires > t}

\* lookups counts the queries the call makes to the ban store
validate_auth_token_unbanned(token, store, config, t) ==
  LET d == decode(token, config.jwt_secret, t)
  IN IF ~d.ok THEN [result |-> "TokenError", claims |-> NoClaims, lookups |-> 0]
     ELSE [result |-> "Ok", claims |-> d.claims, lookups |-> 0]

validate_auth_token_ban_first(token, store, config, t) ==
  LET d == decode(token, config.jwt_secret, t)
  IN IF contains_token(store, token)
     THEN [result |-> "TokenIsBanned", claims |-> NoClaims, lookups |-> 1]
     ELSE IF ~d.ok THEN [result |-> "TokenError", claims |-> NoClaims, lookups |-> 1]
     ELSE [result |-> "Ok", claims |-> d.claims, lookups |-> 1]

validate_auth_token(token, store, config, t) ==
  LET d == decode(token, config.jwt_secret, t)
      reissued == create_token(d.claims, config.jwt_secret)
  IN IF ~d.ok THEN [result |-> "TokenError", claims |-> NoClaims, lookups |-> 0]
     ELSE IF contains_token(store, reissued)
     THEN [result |-> "TokenIsBanned", claims |-> NoClaims, lookups |-> 1]
     ELSE [result |-> "Ok", claims |-> d.claims, lookups |-> 1]

\* the elevated validator: the same procedure under the elevated configuration
validate_elevated_auth_token(token, store, t) ==
  validate_auth_token(token, store, elevated_jwt_config, t)

\* ------------------------------------------------------------------------
\* UserStore
\* ------------------------------------------------------------------------
\* Params::new(m_cost, t_cost, p_cost, None) of the hasher and of the verifier
compute_password_hash_params == <<15000, 2, 1>>
verify_password_hash_params == <<15000, 2, 1>>

compute_password_hash_constant(password) == [alg |-> "argon2id", pw |-> "Password1"]

compute_password_hash(password) == [alg |-> "argon2id", pw |-> password]

\* stored strings that are not a PHC hash string: PasswordHash::new rejects them
MalformedHashes == {[alg |-> "plaintext", pw |-> p] : p \in Passwords}

verify_password_hash_digest_only(expected_password_hash, password_candidate) ==
  expected_password_hash.pw = password_candidate

verify_password_hash_alg_only(expected_password_hash, password_candidate) ==
  expected_password_hash.alg = "argon2id"

verify_password_hash(expected_password_hash, password_candidate) ==
  expected_password_hash.alg = "argon2id" /\ expected_password_hash.pw = password_candidate

User_new(email, password, requires_2fa) ==
  [email |-> email, password_hash |-> compute_password_hash(password),
   requires_2fa |-> requires_2fa]

contains_key(table, email) == \E u \in table : u.email = email

get_user(table, email) == CHOOSE u \in table : u.email = email

add_user_upserting(table, user) ==
  [result |-> "Ok", users |-> {u \in table : u.email # user.email} \cup {user}]

add_user(table, user) ==
  IF contains_key(table, user.email)
  THEN [result |-> "UserAlreadyExists", users |-> table]
  ELSE [result |-> "Ok", users |-> table \cup {user}]

set_new_password_resetting_2fa(table, email, new_password) ==
  IF ~contains_key(table, email)
  THEN [result |-> "UserNotFound", users |-> table]
  ELSE LET user == get_user(table, email)
       IN [result |-> "Ok",
           users |-> (table \ {user}) \cup {User_new(email, new_password, FALSE)}]

set_new_password(table, email, new_password) ==
  IF ~contains_key(table, email)
  THEN [result |-> "UserNotFound", users |-> table]
  ELSE LET user == get_user(table, email)
       IN [result |-> "Ok",
           users |-> (table \ {user}) \cup {User_new(email, new_password, user.requires_2fa)}]

\* PostgresUserStore::set_new_password: UPDATE users SET password_hash = $1
\* WHERE email = $2, and Ok(()) whenever the statement executes
PostgresUserStore_set_new_password(table, email, new_password) ==
  [result |-> "Ok",
   users |-> {IF u.email = email THEN User_new(email, new_password, u.requires_2fa) ELSE u
                : u \in table}]

\* PostgresUserStore::authenticate_user: the row is selected by email, an
\* error of the query is mapped to UserNotFound and every error of
\* verify_password_hash to IncorrectPassword; db_ok is whether the query ran
PostgresUserStore_authenticate_user(table, email, password, db_ok) ==
  LET rows == {u \in table : u.email = email}
  IN IF ~db_ok
     THEN [result |-> "UserNotFound", validated |-> "none"]
     ELSE IF rows = {}
     THEN [result |-> "UserNotFound", validated |-> "none"]
     ELSE LET row == CHOOSE u \in rows : TRUE
          IN IF ~verify_password_hash(row.password_hash, password)
             THEN [result |-> "IncorrectPassword", validated |-> "none"]
             ELSE [result |-> "Ok",
                   validated |-> IF row.requires_2fa THEN "Requires2Fa" ELSE "No2Fa"]

authenticate_user_no_2fa(table, email, password) ==
  IF ~contains_key(table, email)
  THEN [result |-> "UserNotFound", validated |-> "none"]
  ELSE LET user == get_user(table, email)
       IN IF ~verify_password_hash(user.password_hash, password)
          THEN [result |-> "IncorrectPassword", validated |-> "none"]
          ELSE [result |-> "Ok", validated |-> "No2Fa"]

authenticate_user_unchecked(table, email, password) ==
  IF ~contains_key(table, email)
  THEN [result |-> "UserNotFound", validated |-> "none"]
  ELSE LET user == get_user(table, email)
       IN [result |-> "Ok",
           validated |-> IF user.requires_2fa THEN "Requires2Fa" ELSE "No2Fa"]

authenticate_user(table, email, password) ==
  IF ~contains_key(table, email)
  THEN [result |-> "UserNotFound", validated |-> "none"]
  ELSE LET user == get_user(table, email)
       IN IF ~verify_password_hash(user.password_hash, password)
          THEN [result |-> "IncorrectPassword", validated |-> "none"]
          ELSE [result |-> "Ok",
                validated |-> IF user.requires_2fa THEN "Requires2Fa" ELSE "No2Fa"]

delete_user(table, email) ==
  IF ~contains_key(table, email)
  THEN [result |-> "UserNotFound", users |-> table]
  ELSE [result |-> "Ok", users |-> {u \in table : u.email # email}]

\* PostgresUserStore::delete_user: DELETE FROM users WHERE email = $1, and
\* UserNotFound when no row was affected
PostgresUserStore_delete_user(table, email) ==
  LET deleted == {u \in table : u.email = email}
  IN IF Cardinality(deleted) = 0
     THEN [result |-> "UserNotFound", users |-> table]
     ELSE [result |-> "Ok", users |-> table \ deleted]

\* ------------------------------------------------------------------------
\* TwoFaCodeStore
\* ------------------------------------------------------------------------
store_code_appending(table, user_id, login_attempt_id, two_fa_code) ==
  table \cup {[email |-> user_id, id |-> login_attempt_id, code |-> two_fa_code]}

store_code(table, user_id, login_attempt_id, two_fa_code) ==
  {c \in table : c.email # user_id}
    \cup {[email |-> user_id, id |-> login_attempt_id, code |-> two_fa_code]}

two_fa_validate(table, user_id, login_attempt_id, two_fa_code) ==
  IF ~(\E c \in table : c.email = user_id) THEN "UserNotFound"
  ELSE LET c == CHOOSE c \in table : c.email = user_id
       IN IF c.id # login_attempt_id THEN "InvalidAttemptId"
          ELSE IF c.code # two_fa_code THEN "Invalid2FACode"
          ELSE "Ok"

two_fa_delete_keeping(table, user_id) ==
  IF ~(\E c \in table : c.email = user_id)
  THEN [result |-> "UserNotFound", codes |-> table]
  ELSE [result |-> "Ok", codes |-> table]

two_fa_delete(table, user_id) ==
  IF ~(\E c \in table : c.email = user_id)
  THEN [result |-> "UserNotFound", codes |-> table]
  ELSE [result |-> "Ok", codes |-> {c \in table : c.email # user_id}]

\* ------------------------------------------------------------------------
\* Record of the last operation and its outcome
\* ------------------------------------------------------------------------
NoCookie == NoToken

NoAuthCookie == create_auth_cookie(NoToken, "none")

Blank ==
  [op |-> "init", kind |-> "none", email |-> "none", password |-> "none", flag |-> FALSE,
   presented |-> NoToken, elevated |-> NoToken, attempt |-> 0, code |-> "none",
   result |-> "none", token |-> NoToken, sent |-> 0, exp |-> 0, lookups |-> 0, backend |-> "up",
   cookie |-> NoAuthCookie, ttl |-> 0]

Presentable == issued \cup {InvalidTokenString}
Cookies == Presentable \cup {NoCookie}

\* signup requests in flight and the write lock of the user table
NoUser == [email |-> "none", password_hash |-> [alg |-> "none", pw |-> "none"],
           requires_2fa |-> FALSE]
SignupIds == 1..MaxSignups
IdleRequest == [pc |-> "idle", user |-> NoUser, result |-> "none", raced |-> FALSE]

\* Verify2FA requests in flight: the submitted triple, the position of the
\* request, whether its checks passed, its outcome and the challenge its
\* delete step removed
NoChallenge == [email |-> "none", id |-> 0, code |-> "none"]
VerifyIds == 1..MaxVerifies
Verify2FaImpls == {"JwtScheme", "Verify2FaUseCase"}
IdleVerify ==
  [pc |-> "idle", impl |-> "none", email |-> "none", attempt |-> 0, code |-> "none",
   checked |-> FALSE, result |-> "none", token |-> NoToken, deleted |-> NoChallenge]

Init ==
  /\ inflight = [lock |-> 0, reqs |-> [i \in SignupIds |-> IdleRequest],
                 verifs |-> [i \in VerifyIds |-> IdleVerify]]
  /\ users = {}
  /\ codes = {}
  /\ banned = {}
  /\ issued = {}
  /\ now = 0
  /\ nextAttempt = 1
  /\ last = Blank

\* ------------------------------------------------------------------------
\* JwtScheme
\* ------------------------------------------------------------------------
generate_token(email, t) ==
  generate_auth_token(email, jwt_config.token_ttl_in_seconds, jwt_config.jwt_secret, t)

register(email, password, requires_2fa) ==
  LET r == add_user(users, User_new(email, password, requires_2fa))
  IN /\ users' = r.users
     /\ last' = [Blank EXCEPT !.op = "register", !.email = email, !.password = password,
                              !.flag = requires_2fa, !.result = r.result]
     /\ UNCHANGED <<inflight, codes, banned, issued, now, nextAttempt>>

login_challenging_first(raw_email, raw_password, code, send_ok) ==
  LET base == [Blank EXCEPT !.op = "login", !.email = raw_email, !.password = raw_password]
      auth == authenticate_user(users, raw_email, raw_password)
  IN IF raw_email = InvalidEmail \/ raw_password = InvalidPassword
     THEN /\ last' = [base EXCEPT !.result = "UserError"]
          /\ UNCHANGED <<inflight, users, codes, banned, issued, now, nextAttempt>>
     ELSE IF auth.result # "Ok" \/ auth.validated = "Requires2Fa"
     THEN /\ nextAttempt <= MaxAttempts
          /\ codes' = store_code(codes, raw_email, nextAttempt, code)
          /\ nextAttempt' = nextAttempt + 1
          /\ last' = [base EXCEPT !.attempt = nextAttempt, !.code = code, !.sent = 1,
                                  !.flag = send_ok,
                                  !.result = IF auth.result # "Ok" THEN auth.result
                                             ELSE IF send_ok THEN "Requires2Fa"
                                             ELSE "EmailError"]
          /\ UNCHANGED <<inflight, users, banned, issued, now>>
     ELSE LET token == generate_token(raw_email, now)
          IN /\ Cardinality(issued \cup {token}) <= MaxIssued
             /\ issued' = issued \cup {token}
             /\ last' = [base EXCEPT !.result = "Success", !.token = token]
             /\ UNCHANGED <<inflight, users, codes, banned, now, nextAttempt>>

login_retrying(raw_email, raw_password, code, send_ok) ==
  LET base == [Blank EXCEPT !.op = "login", !.email = raw_email, !.password = raw_password]
      auth == authenticate_user(users, raw_email, raw_password)
  IN IF raw_email = InvalidEmail \/ raw_password = InvalidPassword
     THEN /\ last' = [base EXCEPT !.result = "UserError"]
          /\ UNCHANGED <<inflight, users, codes, banned, issued, now, nextAttempt>>
     ELSE IF auth.result # "Ok"
     THEN /\ last' = [base EXCEPT !.result = auth.result]
          /\ UNCHANGED <<inflight, users, codes, banned, issued, now, nextAttempt>>
     ELSE IF auth.validated = "Requires2Fa"
     THEN /\ nextAttempt <= MaxAttempts
          /\ codes' = store_code(codes, raw_email, nextAttempt, code)
          /\ nextAttempt' = nextAttempt + 1
          /\ last' = [base EXCEPT !.attempt = nextAttempt, !.code = code, !.sent = IF send_ok THEN 1 ELSE 2,
                                  !.flag = send_ok,
                                  !.result = IF send_ok THEN "Requires2Fa" ELSE "EmailError"]
          /\ UNCHANGED <<inflight, users, banned, issued, now>>
     ELSE LET token == generate_token(raw_email, now)
          IN /\ Cardinality(issued \cup {token}) <= MaxIssued
             /\ issued' = issued \cup {token}
             /\ last' = [base EXCEPT !.result = "Success", !.token = token]
             /\ UNCHANGED <<inflight, users, codes, banned, now, nextAttempt>>

login(raw_email, raw_password, code, send_ok) ==
  LET base == [Blank EXCEPT !.op = "login", !.email = raw_email, !.password = raw_password]
      auth == authenticate_user(users, raw_email, raw_password)
  IN IF raw_email = InvalidEmail \/ raw_password = InvalidPassword
     THEN /\ last' = [base EXCEPT !.result = "UserError"]
          /\ UNCHANGED <<inflight, users, codes, banned, issued, now, nextAttempt>>
     ELSE IF auth.result # "Ok"
     THEN /\ last' = [base EXCEPT !.result = auth.result]
          /\ UNCHANGED <<inflight, users, codes, banned, issued, now, nextAttempt>>
     ELSE IF auth.validated = "Requires2Fa"
     THEN /\ nextAttempt <= MaxAttempts
          /\ codes' = store_code(codes, raw_email, nextAttempt, code)
          /\ nextAttempt' = nextAttempt + 1
          /\ last' = [base EXCEPT !.attempt = nextAttempt, !.code = code, !.sent = 1,
                                  !.flag = send_ok,
                                  !.result = IF send_ok THEN "Requires2Fa" ELSE "EmailError"]
          /\ UNCHANGED <<inflight, users, banned, issued, now>>
     ELSE LET token == generate_token(raw_email, now)
          IN /\ Cardinality(issued \cup {token}) <= MaxIssued
             /\ issued' = issued \cup {token}
             /\ last' = [base EXCEPT !.result = "Success", !.token = token]
             /\ UNCHANGED <<inflight, users, codes, banned, now, nextAttempt>>

verify_2fa(email, attempt_id, code) ==
  LET base == [Blank EXCEPT !.op = "verify_2fa", !.email = email, !.attempt = attempt_id,
                            !.code = code]
      v == two_fa_validate(codes, email, attempt_id, code)
      d == two_fa_delete(codes, email)
      token == generate_token(email, now)
  IN IF v # "Ok"
     THEN /\ last' = [base EXCEPT !.result = v]
          /\ UNCHANGED <<inflight, users, codes, banned, issued, now, nextAttempt>>
     ELSE IF d.result # "Ok"
     THEN /\ last' = [base EXCEPT !.result = d.result]
          /\ UNCHANGED <<inflight, users, codes, banned, issued, now, nextAttempt>>
     ELSE /\ Cardinality(issued \cup {token}) <= MaxIssued
          /\ codes' = d.codes
          /\ issued' = issued \cup {token}
          /\ last' = [base EXCEPT !.result = "Ok", !.token = token]
          /\ UNCHANGED <<inflight, users, banned, now, nextAttempt>>

HashMapTwoFaCodeStore_validate_consuming(user_id, login_attempt_id, two_fa_code) ==
  LET r == two_fa_validate(codes, user_id, login_attempt_id, two_fa_code)
  IN /\ last' = [Blank EXCEPT !.op = "TwoFaCodeStore_validate", !.email = user_id,
                              !.attempt = login_attempt_id, !.code = two_fa_code,
                              !.result = r]
     /\ codes' = IF r \in {"InvalidAttemptId", "Invalid2FACode"}
                 THEN {c \in codes : c.email # user_id}
                 ELSE codes
     /\ UNCHANGED <<inflight, users, banned, issued, now, nextAttempt>>

\* HashMapTwoFaCodeStore::validate, called on the store by itself: the table
\* is read under the read lock
HashMapTwoFaCodeStore_validate(user_id, login_attempt_id, two_fa_code) ==
  /\ last' = [Blank EXCEPT !.op = "TwoFaCodeStore_validate", !.email = user_id,
                           !.attempt = login_attempt_id, !.code = two_fa_code,
                           !.result = two_fa_validate(codes, user_id, login_attempt_id,
                                                      two_fa_code)]
  /\ UNCHANGED <<inflight, users, codes, banned, issued, now, nextAttempt>>

get_login_attempt_id_and_two_fa_code(table, user_id) ==
  IF ~(\E c \in table : c.email = user_id)
  THEN [result |-> "UserNotFound", id |-> 0, code |-> "none"]
  ELSE LET c == CHOOSE c \in table : c.email = user_id
       IN [result |-> "Ok", id |-> c.id, code |-> c.code]

Verify2FaUseCase_execute_any_code(email, login_attempt_id, two_fa_code) ==
  LET base == [Blank EXCEPT !.op = "Verify2FaUseCase", !.email = email,
                            !.attempt = login_attempt_id, !.code = two_fa_code]
      stored == get_login_attempt_id_and_two_fa_code(codes, email)
      d == two_fa_delete(codes, email)
      token == generate_token(email, now)
  IN IF stored.result # "Ok"
     THEN /\ last' = [base EXCEPT !.result = stored.result]
          /\ UNCHANGED <<inflight, users, codes, banned, issued, now, nextAttempt>>
     ELSE IF stored.id # login_attempt_id
     THEN /\ last' = [base EXCEPT !.result = "InvalidLoginAttemptId"]
          /\ UNCHANGED <<inflight, users, codes, banned, issued, now, nextAttempt>>
     ELSE /\ Cardinality(issued \cup {token}) <= MaxIssued
          /\ codes' = d.codes
          /\ issued' = issued \cup {token}
          /\ last' = [base EXCEPT !.result = "Ok", !.token = token]
          /\ UNCHANGED <<inflight, users, banned, now, nextAttempt>>

\* the checks of Verify2FaUseCase::execute before its delete: the stored pair
\* is read, the attempt id is compared, then the code
Verify2FaUseCase_compare(table, email, login_attempt_id, two_fa_code) ==
  LET stored == get_login_attempt_id_and_two_fa_code(table, email)
  IN IF stored.result # "Ok" THEN stored.result
     ELSE IF stored.id # login_attempt_id THEN "InvalidLoginAttemptId"
     ELSE IF stored.code # two_fa_code THEN "InvalidTwoFaCode"
     ELSE "Ok"

\* the variants of TwoFaCodeStoreError and Verify2FaError by what they report
Verify2FaErrorClass(result) ==
  CASE result = "Ok" -> "accepted"
    [] result = "UserNotFound" -> "nothing pending"
    [] result \in {"InvalidAttemptId", "InvalidLoginAttemptId"} -> "attempt id mismatch"
    [] result \in {"Invalid2FACode", "InvalidTwoFaCode"} -> "code mismatch"
    [] OTHER -> "unexpected"

Verify2FaUseCase_execute_code_first(email, login_attempt_id, two_fa_code) ==
  LET base == [Blank EXCEPT !.op = "Verify2FaUseCase", !.email = email,
                            !.attempt = login_attempt_id, !.code = two_fa_code]
      stored == get_login_attempt_id_and_two_fa_code(codes, email)
      d == two_fa_delete(codes, email)
      token == generate_token(email, now)
  IN IF stored.result # "Ok"
     THEN /\ last' = [base EXCEPT !.result = stored.result]
          /\ UNCHANGED <<inflight, users, codes, banned, issued, now, nextAttempt>>
     ELSE IF stored.code # two_fa_code
     THEN /\ last' = [base EXCEPT !.result = "InvalidTwoFaCode"]
          /\ UNCHANGED <<inflight, users, codes, banned, issued, now, nextAttempt>>
     ELSE IF stored.id # login_attempt_id
     THEN /\ last' = [base EXCEPT !.result = "InvalidLoginAttemptId"]
          /\ UNCHANGED <<inflight, users, codes, banned, issued, now, nextAttempt>>
     ELSE /\ Cardinality(issued \cup {token}) <= MaxIssued
          /\ codes' = d.codes
          /\ issued' = issued \cup {token}
          /\ last' = [base EXCEPT !.result = "Ok", !.token = token]
          /\ UNCHANGED <<inflight, users, banned, now, nextAttempt>>

\* JwtAuthenticator::verify_2fa: Verify2FaUseCase::execute, then the auth cookie
Verify2FaUseCase_execute(email, login_attempt_id, two_fa_code) ==
  LET base == [Blank EXCEPT !.op = "Verify2FaUseCase", !.email = email,
                            !.attempt = login_attempt_id, !.code = two_fa_code]
      stored == get_login_attempt_id_and_two_fa_code(codes, email)
      d == two_fa_delete(codes, email)
      token == generate_token(email, now)
  IN IF stored.result # "Ok"
     THEN /\ last' = [base EXCEPT !.result = stored.result]
          /\ UNCHANGED <<inflight, users, codes, banned, issued, now, nextAttempt>>
     ELSE IF stored.id # login_attempt_id
     THEN /\ last' = [base EXCEPT !.result = "InvalidLoginAttemptId"]
          /\ UNCHANGED <<inflight, users, codes, banned, issued, now, nextAttempt>>
     ELSE IF stored.code # two_fa_code
     THEN /\ last' = [base EXCEPT !.result = "InvalidTwoFaCode"]
          /\ UNCHANGED <<inflight, users, codes, banned, issued, now, nextAttempt>>
     ELSE IF d.result # "Ok"
     THEN /\ last' = [base EXCEPT !.result = d.result]
          /\ UNCHANGED <<inflight, users, codes, banned, issued, now, nextAttempt>>
     ELSE /\ Cardinality(issued \cup {token}) <= MaxIssued
          /\ codes' = d.codes
          /\ issued' = issued \cup {token}
          /\ last' = [base EXCEPT !.result = "Ok", !.token = token]
          /\ UNCHANGED <<inflight, users, banned, now, nextAttempt>>

\* generate_auth_token called with a TTL and a secret at the current time
generate_auth_token_call(email, token_ttl_seconds, secret) ==
  LET r == generate_auth_token_result(email, token_ttl_seconds, secret, now)
  IN /\ last' = [Blank EXCEPT !.op = "generate_auth_token", !.email = email,
                              !.ttl = token_ttl_seconds, !.result = r.result,
                              !.token = r.token, !.exp = r.token.exp]
     /\ UNCHANGED <<inflight, users, codes, banned, issued, now, nextAttempt>>

\* JwtAuthenticator::login: LoginUseCase, then the auth cookie on success
JwtAuthenticator_login(raw_email, raw_password, code, send_ok) ==
  LET base == [Blank EXCEPT !.op = "JwtAuthenticator_login", !.email = raw_email,
                            !.password = raw_password]
      auth == authenticate_user(users, raw_email, raw_password)
  IN IF raw_email = InvalidEmail \/ raw_password = InvalidPassword
     THEN /\ last' = [base EXCEPT !.result = "UserError"]
          /\ UNCHANGED <<inflight, users, codes, banned, issued, now, nextAttempt>>
     ELSE IF auth.result # "Ok"
     THEN /\ last' = [base EXCEPT !.result = auth.result]
          /\ UNCHANGED <<inflight, users, codes, banned, issued, now, nextAttempt>>
     ELSE IF auth.validated = "Requires2Fa"
     THEN /\ nextAttempt <= MaxAttempts
          /\ codes' = store_code(codes, raw_email, nextAttempt, code)
          /\ nextAttempt' = nextAttempt + 1
          /\ last' = [base EXCEPT !.attempt = nextAttempt, !.code = code, !.sent = 1,
                                  !.flag = send_ok,
                                  !.result = IF send_ok THEN "Requires2Fa" ELSE "EmailError"]
          /\ UNCHANGED <<inflight, users, banned, issued, now>>
     ELSE LET auth_cookie == generate_auth_cookie(raw_email, jwt_config, now)
          IN /\ Cardinality(issued \cup {auth_cookie.value}) <= MaxIssued
             /\ issued' = issued \cup {auth_cookie.value}
             /\ last' = [base EXCEPT !.result = "Success", !.token = auth_cookie.value,
                                     !.cookie = auth_cookie]
             /\ UNCHANGED <<inflight, users, codes, banned, now, nextAttempt>>

\* JwtAuthenticator::verify_2fa: Verify2FaUseCase, then the auth cookie
JwtAuthenticator_verify_2fa(email, login_attempt_id, two_fa_code) ==
  LET base == [Blank EXCEPT !.op = "JwtAuthenticator_verify_2fa", !.email = email,
                            !.attempt = login_attempt_id, !.code = two_fa_code]
      stored == get_login_attempt_id_and_two_fa_code(codes, email)
      d == two_fa_delete(codes, email)
      auth_cookie == generate_auth_cookie(email, jwt_config, now)
  IN IF stored.result # "Ok"
     THEN /\ last' = [base EXCEPT !.result = stored.result]
          /\ UNCHANGED <<inflight, users, codes, banned, issued, now, nextAttempt>>
     ELSE IF stored.id # login_attempt_id
     THEN /\ last' = [base EXCEPT !.result = "InvalidLoginAttemptId"]
          /\ UNCHANGED <<inflight, users, codes, banned, issued, now, nextAttempt>>
     ELSE IF stored.code # two_fa_code
     THEN /\ last' = [base EXCEPT !.result = "InvalidTwoFaCode"]
          /\ UNCHANGED <<inflight, users, codes, banned, issued, now, nextAttempt>>
     ELSE IF d.result # "Ok"
     THEN /\ last' = [base EXCEPT !.result = d.result]
          /\ UNCHANGED <<inflight, users, codes, banned, issued, now, nextAttempt>>
     ELSE /\ Cardinality(issued \cup {auth_cookie.value}) <= MaxIssued
          /\ codes' = d.codes
          /\ issued' = issued \cup {auth_cookie.value}
          /\ last' = [base EXCEPT !.result = "Ok", !.token = auth_cookie.value,
                                  !.cookie = auth_cookie]
          /\ UNCHANGED <<inflight, users, banned, now, nextAttempt>>

elevate(email, password) ==
  LET base == [Blank EXCEPT !.op = "elevate", !.email = email, !.password = password]
      auth == authenticate_user(users, email, password)
      token == generate_auth_token(email, elevated_jwt_config.token_ttl_in_seconds,
                                   elevated_jwt_config.jwt_secret, now)
  IN IF auth.result # "Ok"
     THEN /\ last' = [base EXCEPT !.result = auth.result]
          /\ UNCHANGED <<inflight, users, codes, banned, issued, now, nextAttempt>>
     ELSE /\ Cardinality(issued \cup {token}) <= MaxIssued
          /\ issued' = issued \cup {token}
          /\ last' = [base EXCEPT !.result = "Ok", !.token = token]
          /\ UNCHANGED <<inflight, users, codes, banned, now, nextAttempt>>

revoke_token(store, token, t) == ban_token(store, token, t)

\* handlers::handle_logout: the scheme's cookie is extracted and revoked
handle_logout(cookie, elevated_cookie) ==
  LET base == [Blank EXCEPT !.op = "handle_logout", !.presented = cookie,
                            !.elevated = elevated_cookie]
  IN IF cookie = NoCookie
     THEN /\ last' = [base EXCEPT !.result = "MissingToken"]
          /\ UNCHANGED <<inflight, users, codes, banned, issued, now, nextAttempt>>
     ELSE /\ Cardinality(revoke_token(banned, cookie, now)) <= MaxBans
          /\ banned' = revoke_token(banned, cookie, now)
          /\ last' = [base EXCEPT !.result = "Ok"]
          /\ UNCHANGED <<inflight, users, codes, issued, now, nextAttempt>>

\* LogoutUseCase::execute(token, elevated_token: Option<String>)
LogoutUseCase_execute(token, elevated_token) ==
  LET base == [Blank EXCEPT !.op = "LogoutUseCase", !.presented = token,
                            !.elevated = elevated_token]
      first == ban_token(banned, token, now)
      second == IF elevated_token = NoToken THEN first
                ELSE ban_token(first, elevated_token, now)
  IN /\ Cardinality(second) <= MaxBans
     /\ banned' = second
     /\ last' = [base EXCEPT !.result = "Ok"]
     /\ UNCHANGED <<inflight, users, codes, issued, now, nextAttempt>>

\* handlers::handle_verify_token
handle_verify_token(cookie) ==
  /\ last' = [Blank EXCEPT !.op = "handle_verify_token", !.presented = cookie,
                           !.result = IF cookie = NoCookie THEN "MissingToken" ELSE "valid"]
  /\ UNCHANGED <<inflight, users, codes, banned, issued, now, nextAttempt>>

\* handlers::handle_verify_elevated_token
handle_verify_elevated_token(elevated_cookie) ==
  /\ last' = [Blank EXCEPT !.op = "handle_verify_elevated_token",
                           !.elevated = elevated_cookie,
                           !.result = IF elevated_cookie = NoCookie THEN "MissingToken"
                                      ELSE "valid"]
  /\ UNCHANGED <<inflight, users, codes, banned, issued, now, nextAttempt>>

extract_token(cookie) == IF cookie = NoCookie THEN "MissingToken" ELSE "Ok"

\* LocalJwtValidator::validate for the regular and the elevated validator
validate(config, cookie) ==
  LET v == validate_auth_token(cookie, banned, config, now)
  IN /\ last' = [Blank EXCEPT !.op = "validate", !.kind = config.jwt_cookie_name,
                              !.presented = cookie,
                              !.email = IF extract_token(cookie) = "Ok" THEN v.claims.sub
                                        ELSE "none",
                              !.exp = IF extract_token(cookie) = "Ok" THEN v.claims.exp
                                      ELSE 0,
                              !.lookups = IF extract_token(cookie) = "Ok" THEN v.lookups
                                          ELSE 0,
                              !.result = IF extract_token(cookie) # "Ok" THEN "MissingToken"
                                         ELSE v.result]
     /\ UNCHANGED <<inflight, users, codes, banned, issued, now, nextAttempt>>

\* the cookie-based logout route: the regular cookie is extracted and
\* validated, then LogoutUseCase::execute bans it and, when the elevated
\* cookie is present, the elevated token as well
logout(cookie, elevated_cookie) ==
  LET base == [Blank EXCEPT !.op = "logout", !.presented = cookie,
                            !.elevated = elevated_cookie]
      v == validate_auth_token(cookie, banned, jwt_config, now)
      first == ban_token(banned, cookie, now)
      second == IF elevated_cookie = NoCookie THEN first
                ELSE ban_token(first, elevated_cookie, now)
  IN IF extract_token(cookie) # "Ok"
     THEN /\ last' = [base EXCEPT !.result = "MissingToken"]
          /\ UNCHANGED <<inflight, users, codes, banned, issued, now, nextAttempt>>
     ELSE IF v.result # "Ok"
     THEN /\ last' = [base EXCEPT !.result = v.result, !.lookups = v.lookups]
          /\ UNCHANGED <<inflight, users, codes, banned, issued, now, nextAttempt>>
     ELSE /\ Cardinality(second) <= MaxBans
          /\ banned' = second
          /\ last' = [base EXCEPT !.result = "Ok", !.lookups = v.lookups]
          /\ UNCHANGED <<inflight, users, codes, issued, now, nextAttempt>>

\* change_password route: elevated cookie, validation, ChangePasswordUseCase
change_password(elevated_cookie, new_password) ==
  LET base == [Blank EXCEPT !.op = "change_password", !.elevated = elevated_cookie,
                            !.password = new_password]
      v == validate_elevated_auth_token(elevated_cookie, banned, now)
      r == set_new_password(users, v.claims.sub, new_password)
  IN IF extract_token(elevated_cookie) # "Ok"
     THEN /\ last' = [base EXCEPT !.result = "MissingToken"]
          /\ UNCHANGED <<inflight, users, codes, banned, issued, now, nextAttempt>>
     ELSE IF v.result # "Ok"
     THEN /\ last' = [base EXCEPT !.result = v.result]
          /\ UNCHANGED <<inflight, users, codes, banned, issued, now, nextAttempt>>
     ELSE IF new_password = InvalidPassword
     THEN /\ last' = [base EXCEPT !.email = v.claims.sub, !.result = "UserError"]
          /\ UNCHANGED <<inflight, users, codes, banned, issued, now, nextAttempt>>
     ELSE /\ users' = r.users
          /\ last' = [base EXCEPT !.email = v.claims.sub, !.result = r.result]
          /\ UNCHANGED <<inflight, codes, banned, issued, now, nextAttempt>>

\* ChangePasswordUseCase::execute over either UserStore implementation
ChangePasswordUseCase_execute(store, email, new_password) ==
  LET r == IF store = "PostgresUserStore"
           THEN PostgresUserStore_set_new_password(users, email, new_password)
           ELSE set_new_password(users, email, new_password)
  IN /\ users' = r.users
     /\ last' = [Blank EXCEPT !.op = "ChangePasswordUseCase", !.kind = store,
                              !.email = email, !.password = new_password,
                              !.result = r.result]
     /\ UNCHANGED <<inflight, codes, banned, issued, now, nextAttempt>>

\* UserStore::authenticate_user called on either implementation; flag records
\* whether a ValidatedUser was returned, backend whether the database
\* answered (the in-memory store has none to fail)
UserStore_authenticate_user(store, email, password, db_ok) ==
  LET r == IF store = "PostgresUserStore"
           THEN PostgresUserStore_authenticate_user(users, email, password, db_ok)
           ELSE authenticate_user(users, email, password)
  IN /\ store = "HashMapUserStore" => db_ok
     /\ last' = [Blank EXCEPT !.op = "authenticate_user", !.kind = store,
                              !.email = email, !.password = password,
                              !.backend = IF db_ok THEN "up" ELSE "down",
                              !.flag = (r.validated # "none"),
                              !.result = r.result]
     /\ UNCHANGED <<inflight, users, codes, banned, issued, now, nextAttempt>>

\* DeleteAccountUseCase::execute over either UserStore implementation
DeleteAccountUseCase_execute(store, email) ==
  LET r == IF store = "PostgresUserStore"
           THEN PostgresUserStore_delete_user(users, email)
           ELSE delete_user(users, email)
  IN /\ users' = r.users
     /\ last' = [Blank EXCEPT !.op = "DeleteAccountUseCase", !.kind = store,
                              !.email = email, !.result = r.result]
     /\ UNCHANGED <<inflight, codes, banned, issued, now, nextAttempt>>

delete_account_revoking(elevated_cookie) ==
  LET base == [Blank EXCEPT !.op = "delete_account", !.elevated = elevated_cookie]
      v == validate_elevated_auth_token(elevated_cookie, banned, now)
      r == delete_user(users, v.claims.sub)
  IN IF extract_token(elevated_cookie) # "Ok"
     THEN /\ last' = [base EXCEPT !.result = "MissingToken"]
          /\ UNCHANGED <<inflight, users, codes, banned, issued, now, nextAttempt>>
     ELSE IF v.result # "Ok"
     THEN /\ last' = [base EXCEPT !.result = v.result]
          /\ UNCHANGED <<inflight, users, codes, banned, issued, now, nextAttempt>>
     ELSE /\ users' = r.users
          /\ banned' = ban_token(banned, elevated_cookie, now)
          /\ last' = [base EXCEPT !.email = v.claims.sub, !.result = r.result]
          /\ UNCHANGED <<inflight, codes, issued, now, nextAttempt>>

\* delete_account route: elevated cookie, validation, DeleteAccountUseCase
delete_account(elevated_cookie) ==
  LET base == [Blank EXCEPT !.op = "delete_account", !.elevated = elevated_cookie]
      v == validate_elevated_auth_token(elevated_cookie, banned, now)
      r == delete_user(users, v.claims.sub)
  IN IF extract_token(elevated_cookie) # "Ok"
     THEN /\ last' = [base EXCEPT !.result = "MissingToken"]
          /\ UNCHANGED <<inflight, users, codes, banned, issued, now, nextAttempt>>
     ELSE IF v.result # "Ok"
     THEN /\ last' = [base EXCEPT !.result = v.result]
          /\ UNCHANGED <<inflight, users, codes, banned, issued, now, nextAttempt>>
     ELSE /\ users' = r.users
          /\ last' = [base EXCEPT !.email = v.claims.sub, !.result = r.result]
          /\ UNCHANGED <<inflight, codes, banned, issued, now, nextAttempt>>

Tick ==
  /\ now < MaxTime
  /\ now' = now + 1
  /\ banned' = expire_keys(banned, now + 1)
  /\ last' = [Blank EXCEPT !.op = "tick"]
  /\ UNCHANGED <<inflight, users, codes, issued, nextAttempt>>

\* Registration, login and the two-factor challenge protocol
NextTwoFa ==
  \/ \E e \in Emails, p \in Passwords, f \in BOOLEAN : register(e, p, f)
  \/ \E e \in RawEmails, p \in RawPasswords, c \in Codes, s \in BOOLEAN : login(e, p, c, s)
  \/ \E e \in Emails, a \in AttemptIds, c \in Codes : verify_2fa(e, a, c)
  \/ \E e \in Emails, a \in AttemptIds, c \in Codes : Verify2FaUseCase_execute(e, a, c)
  \/ \E e \in Emails, a \in AttemptIds, c \in Codes : HashMapTwoFaCodeStore_validate(e, a, c)

SpecTwoFa == Init /\ [][NextTwoFa]_vars

\* Sessions without the clock: issuance, step-up, revocation, validation and
\* the operations guarded by the elevated token
NextSession ==
  \/ \E e \in Emails, p \in Passwords : register(e, p, FALSE)
  \/ \E e \in Emails, p \in Passwords, c \in Codes : login(e, p, c, TRUE)
  \/ \E e \in Emails, p \in Passwords : elevate(e, p)
  \/ \E t \in Cookies, et \in Cookies : handle_logout(t, et)
  \/ \E t \in Presentable, et \in Cookies : LogoutUseCase_execute(t, et)
  \/ \E t \in Cookies : handle_verify_token(t)
  \/ \E t \in Cookies : handle_verify_elevated_token(t)
  \/ \E cfg \in {jwt_config, elevated_jwt_config}, t \in Cookies : validate(cfg, t)
  \/ \E t \in Cookies, p \in RawPasswords : change_password(t, p)
  \/ \E t \in Cookies : delete_account(t)

SpecSession == Init /\ [][NextSession]_vars

\* Token lifetime: one account, the clock, ban expiry
TimeEmail == "a@b.com"
TimePassword == "Password1"

NextTime ==
  \/ register(TimeEmail, TimePassword, FALSE)
  \/ \E c \in Codes : login(TimeEmail, TimePassword, c, TRUE)
  \/ elevate(TimeEmail, TimePassword)
  \/ \E t \in issued : LogoutUseCase_execute(t, NoToken)
  \/ \E cfg \in {jwt_config, elevated_jwt_config}, t \in Cookies : validate(cfg, t)
  \/ Tick

SpecTime == Init /\ [][NextTime]_vars

\* The two implementations of 2FA verification, run from every pending-2FA
\* table the logins can leave: at most one challenge for an email, no attempt
\* id used twice
Challenges == [email : Emails, id : AttemptIds, code : Codes]
PendingTables ==
  {t \in SUBSET Challenges :
     \A c \in t, d \in t : (c.email = d.email \/ c.id = d.id) => c = d}

InitPending ==
  /\ inflight = [lock |-> 0, reqs |-> [i \in SignupIds |-> IdleRequest],
                 verifs |-> [i \in VerifyIds |-> IdleVerify]]
  /\ users = {}
  /\ codes \in PendingTables
  /\ banned = {}
  /\ issued = {}
  /\ now = 0
  /\ nextAttempt = 1
  /\ last = Blank

NextVerify ==
  \/ \E e \in Emails, a \in AttemptIds, c \in Codes : verify_2fa(e, a, c)
  \/ \E e \in Emails, a \in AttemptIds, c \in Codes : Verify2FaUseCase_execute(e, a, c)

SpecVerify == InitPending /\ [][NextVerify]_vars

\* Logout through the cookie route: one account, its regular and elevated
\* tokens, the clock and ban expiry
NextLogout ==
  \/ register(TimeEmail, TimePassword, FALSE)
  \/ \E c \in Codes : login(TimeEmail, TimePassword, c, TRUE)
  \/ elevate(TimeEmail, TimePassword)
  \/ \E t \in Cookies, et \in Cookies : logout(t, et)
  \/ Tick

SpecLogout == Init /\ [][NextLogout]_vars

\* Step-up: operations guarded by the elevated token, with the clock
NextStepUp ==
  \/ \E e \in Emails : register(e, TimePassword, FALSE)
  \/ \E c \in Codes : login(TimeEmail, TimePassword, c, TRUE)
  \/ elevate(TimeEmail, TimePassword)
  \/ \E t \in {x \in issued : x.sig = elevated_jwt_config.jwt_secret} :
       LogoutUseCase_execute(t, NoToken)
  \/ \E t \in Cookies, p \in RawPasswords : change_password(t, p)
  \/ \E t \in Cookies : delete_account(t)
  \/ Tick

SpecStepUp == Init /\ [][NextStepUp]_vars

\* Every token-issuing and account-changing operation, with revocation: one
\* account with two-factor login, one without
NextFrame ==
  \/ \E e \in Emails : register(e, TimePassword, e # TimeEmail)
  \/ \E e \in Emails, c \in Codes : login(e, TimePassword, c, TRUE)
  \/ \E e \in Emails \ {TimeEmail}, a \in AttemptIds, c \in Codes : verify_2fa(e, a, c)
  \/ \E e \in Emails : elevate(e, TimePassword)
  \/ \E t \in issued : LogoutUseCase_execute(t, NoToken)
  \/ \E t \in Cookies, p \in Passwords : change_password(t, p)
  \/ \E t \in Cookies : delete_account(t)

SpecFrame == Init /\ [][NextFrame]_vars

\* The user table under signup, login, elevation, change of password and
\* deletion of the account, for the in-memory and the relational store
UserStores == {"HashMapUserStore", "PostgresUserStore"}

NextUserStore ==
  \/ \E e \in Emails, p \in Passwords, f \in BOOLEAN : register(e, p, f)
  \/ \E s \in UserStores, e \in Emails, p \in Passwords :
       ChangePasswordUseCase_execute(s, e, p)
  \/ \E s \in UserStores, e \in Emails : DeleteAccountUseCase_execute(s, e)
  \/ \E e \in Emails, p \in Passwords, c \in Codes : login(e, p, c, TRUE)
  \/ \E e \in Emails, p \in Passwords : elevate(e, p)

SpecUserStore == Init /\ [][NextUserStore]_vars

\* Password hashing: the users table of the relational store starts with any
\* rows, among them rows whose password_hash column is not a hash string
StoredHashes == {compute_password_hash(p) : p \in Passwords} \cup MalformedHashes
Rows == [email : Emails, password_hash : StoredHashes, requires_2fa : BOOLEAN]

InitHash ==
  /\ inflight = [lock |-> 0, reqs |-> [i \in SignupIds |-> IdleRequest],
                 verifs |-> [i \in VerifyIds |-> IdleVerify]]
  /\ users \in {t \in SUBSET Rows : \A u \in t, v \in t : u.email = v.email => u = v}
  /\ codes = {}
  /\ banned = {}
  /\ issued = {}
  /\ now = 0
  /\ nextAttempt = 1
  /\ last = Blank

NextHash ==
  \/ \E e \in Emails, p \in Passwords, f \in BOOLEAN : register(e, p, f)
  \/ \E s \in UserStores, e \in Emails, p \in Passwords, db_ok \in BOOLEAN :
       UserStore_authenticate_user(s, e, p, db_ok)
  \/ \E s \in UserStores, e \in Emails, p \in Passwords :
       ChangePasswordUseCase_execute(s, e, p)

SpecHash == InitHash /\ [][NextHash]_vars

\* The cookie-building authenticator: signup, login and two-factor
\* verification, each success answered with the auth cookie
NextCookie ==
  \/ \E e \in Emails, p \in Passwords, f \in BOOLEAN : register(e, p, f)
  \/ \E e \in RawEmails, p \in RawPasswords, c \in Codes, s \in BOOLEAN :
       JwtAuthenticator_login(e, p, c, s)
  \/ \E e \in Emails, a \in AttemptIds, c \in Codes :
       JwtAuthenticator_verify_2fa(e, a, c)

SpecCookie == Init /\ [][NextCookie]_vars

\* Issuance over the range of TTLs and the clock
TtlInputs == (0 - MaxTtlInput)..MaxTtlInput

NextIssue ==
  \/ \E e \in Emails, ttl \in TtlInputs,
         secret \in {jwt_config.jwt_secret, elevated_jwt_config.jwt_secret} :
       generate_auth_token_call(e, ttl, secret)
  \/ Tick

SpecIssue == Init /\ [][NextIssue]_vars

\* ------------------------------------------------------------------------
\* Concurrent signups: JwtScheme::register builds the User, then
\* HashMapUserStore::add_user takes the write lock, checks and inserts
\* ------------------------------------------------------------------------
signup_request(id, email, password, requires_2fa) ==
  /\ inflight.reqs[id].pc = "idle"
  /\ inflight' = [inflight EXCEPT
       !.reqs[id] = [pc |-> "ready",
                     user |-> User_new(email, password, requires_2fa),
                     result |-> "none",
                     raced |-> \E j \in SignupIds \ {id} :
                                 /\ inflight.reqs[j].pc \notin {"idle", "done"}
                                 /\ inflight.reqs[j].user.email = email]]
  /\ UNCHANGED <<users, codes, banned, issued, now, nextAttempt, last>>

add_user_read_lock(id) ==
  /\ inflight.reqs[id].pc = "ready"
  /\ inflight' = [inflight EXCEPT !.reqs[id].pc = "locked"]
  /\ UNCHANGED <<users, codes, banned, issued, now, nextAttempt, last>>

add_user_write_lock(id) ==
  /\ inflight.reqs[id].pc = "ready"
  /\ inflight.lock = 0
  /\ inflight' = [inflight EXCEPT !.lock = id, !.reqs[id].pc = "locked"]
  /\ UNCHANGED <<users, codes, banned, issued, now, nextAttempt, last>>

add_user_contains_key(id) ==
  /\ inflight.reqs[id].pc = "locked"
  /\ inflight' =
       IF contains_key(users, inflight.reqs[id].user.email)
       THEN [inflight EXCEPT !.lock = 0, !.reqs[id].pc = "done",
                             !.reqs[id].result = "UserAlreadyExists"]
       ELSE [inflight EXCEPT !.reqs[id].pc = "insert"]
  /\ UNCHANGED <<users, codes, banned, issued, now, nextAttempt, last>>

add_user_insert(id) ==
  /\ inflight.reqs[id].pc = "insert"
  /\ users' = {u \in users : u.email # inflight.reqs[id].user.email}
                \cup {inflight.reqs[id].user}
  /\ inflight' = [inflight EXCEPT !.lock = 0, !.reqs[id].pc = "done",
                                  !.reqs[id].result = "Ok"]
  /\ UNCHANGED <<codes, banned, issued, now, nextAttempt, last>>

NextSignup ==
  \/ \E id \in SignupIds, e \in Emails, p \in Passwords : signup_request(id, e, p, FALSE)
  \/ \E id \in SignupIds : add_user_write_lock(id)
  \/ \E id \in SignupIds : add_user_contains_key(id)
  \/ \E id \in SignupIds : add_user_insert(id)

SpecSignup == Init /\ [][NextSignup]_vars

\* ------------------------------------------------------------------------
\* Concurrent Verify2FA requests: each request awaits the store twice, once
\* for the checks (read lock) and once for the delete (write lock); the token
\* is generated in the same step as the delete, without another await
\* ------------------------------------------------------------------------
verify_2fa_request(id, impl, email, attempt_id, code) ==
  /\ inflight.verifs[id].pc = "idle"
  /\ \A j \in VerifyIds : j < id => inflight.verifs[j].pc # "idle"
  /\ inflight' = [inflight EXCEPT
       !.verifs[id] = [IdleVerify EXCEPT !.pc = "validate", !.impl = impl, !.email = email,
                                         !.attempt = attempt_id, !.code = code]]
  /\ UNCHANGED <<users, codes, banned, issued, now, nextAttempt, last>>

verify_2fa_validate(id) ==
  LET req == inflight.verifs[id]
      r == IF req.impl = "JwtScheme"
           THEN two_fa_validate(codes, req.email, req.attempt, req.code)
           ELSE Verify2FaUseCase_compare(codes, req.email, req.attempt, req.code)
  IN /\ req.pc = "validate"
     /\ inflight' = IF r = "Ok"
                    THEN [inflight EXCEPT !.verifs[id].pc = "delete",
                                          !.verifs[id].checked = TRUE]
                    ELSE [inflight EXCEPT !.verifs[id].pc = "done",
                                          !.verifs[id].result = r]
     /\ UNCHANGED <<users, codes, banned, issued, now, nextAttempt, last>>

verify_2fa_delete(id) ==
  LET req == inflight.verifs[id]
      d == two_fa_delete(codes, req.email)
      token == generate_token(req.email, now)
  IN /\ req.pc = "delete"
     /\ IF d.result # "Ok"
        THEN /\ inflight' = [inflight EXCEPT !.verifs[id].pc = "done",
                                             !.verifs[id].result = d.result]
             /\ UNCHANGED <<users, codes, banned, issued, now, nextAttempt, last>>
        ELSE /\ Cardinality(issued \cup {token}) <= MaxIssued
             /\ codes' = d.codes
             /\ issued' = issued \cup {token}
             /\ inflight' = [inflight EXCEPT
                  !.verifs[id].pc = "done", !.verifs[id].result = "Ok",
                  !.verifs[id].token = token,
                  !.verifs[id].deleted = CHOOSE c \in codes : c.email = req.email]
             /\ UNCHANGED <<users, banned, now, nextAttempt, last>>

\* One account with two-factor login, its logins, and Verify2FA requests whose
\* store accesses interleave with each other and with the logins
NextVerifyRace ==
  \/ register(TimeEmail, TimePassword, TRUE)
  \/ \E c \in Codes : login(TimeEmail, TimePassword, c, TRUE)
  \/ \E id \in VerifyIds, i \in Verify2FaImpls, a \in AttemptIds, c \in Codes :
       verify_2fa_request(id, i, TimeEmail, a, c)
  \/ \E id \in VerifyIds : verify_2fa_validate(id)
  \/ \E id \in VerifyIds : verify_2fa_delete(id)

SpecVerifyRace == Init /\ [][NextVerifyRace]_vars

\* ------------------------------------------------------------------------
\* Properties
\* ------------------------------------------------------------------------

\* C1: for a user registered without 2FA, login with the registered email and
\* password returns Success with a token; verifying that token succeeds; and
\* once the token has been logged out, verifying it fails.
C1_LoginVerifyLogout ==
  /\ (/\ last.op = "login"
      /\ \E u \in users : /\ u.email = last.email
                          /\ ~u.requires_2fa
                          /\ u.password_hash = [alg |-> "argon2id", pw |-> last.password])
       => (last.result = "Success" /\ last.token \in issued)
  /\ (/\ last.op = "handle_verify_token"
      /\ last.presented \in issued
      /\ last.presented.sig = jwt_config.jwt_secret
      /\ last.presented.exp >= now
      /\ ~(\E b \in banned : b.token = last.presented))
       => last.result = "valid"
  /\ (/\ last.op = "handle_verify_token"
      /\ \E b \in banned : b.token = last.presented)
       => last.result # "valid"

\* C2 (as stated): while the ban entry of a token is live, every validation of
\* that token under the secret it was signed with fails with the banned-token
\* error.
C2_BannedAlwaysBannedError ==
  (/\ last.op = "validate"
   /\ \E cfg \in {jwt_config, elevated_jwt_config} :
        cfg.jwt_cookie_name = last.kind /\ cfg.jwt_secret = last.presented.sig
   /\ \E b \in banned : b.token = last.presented)
    => last.result = "TokenIsBanned"

\* C2 (amended): while the ban entry of a token is live, every validation of
\* that token under the secret it was signed with fails: with the banned-token
\* error while the token has not expired, and with the banned-token error or
\* the token (expired) error once it has.
C2_BannedFailsUntilTtl ==
  (/\ last.op = "validate"
   /\ \E cfg \in {jwt_config, elevated_jwt_config} :
        cfg.jwt_cookie_name = last.kind /\ cfg.jwt_secret = last.presented.sig
   /\ \E b \in banned : b.token = last.presented)
    => IF last.presented.exp >= now
       THEN last.result = "TokenIsBanned"
       ELSE last.result \in {"TokenIsBanned", "TokenError"}

\* a banned, unexpired token is validated after other operations and refused
C2_Witness ==
  /\ last.op = "validate"
  /\ last.result = "TokenIsBanned"
  /\ last.presented \in issued
  /\ \E b \in banned : b.token = last.presented /\ b.expires = now + 1

\* C3: a logout presented with a regular and an elevated token leaves neither
\* of them valid, and every other elevated token that validated before the
\* logout validates after it.
C3_LogoutBansBoth ==
  [][(/\ last'.op \in {"handle_logout", "LogoutUseCase"}
      /\ last'.result = "Ok"
      /\ last'.presented \in issued
      /\ last'.presented.sig = jwt_config.jwt_secret
      /\ last'.elevated \in issued
      /\ last'.elevated.sig = elevated_jwt_config.jwt_secret)
     => /\ validate_auth_token(last'.presented, banned', jwt_config, now').result # "Ok"
        /\ validate_auth_token(last'.elevated, banned', elevated_jwt_config, now').result
             # "Ok"
        /\ \A t \in issued :
             (/\ t # last'.elevated
              /\ validate_auth_token(t, banned, elevated_jwt_config, now).result = "Ok")
               => validate_auth_token(t, banned', elevated_jwt_config, now').result = "Ok"
    ]_vars

\* C4 (as stated): a login with the correct password of a 2FA user returns
\* Requires2Fa with the attempt id, issues no token, leaves exactly one pending
\* challenge for the email (the returned attempt id with the mailed code) and
\* sends exactly one email; that attempt id and code, submitted to Verify2FA
\* right after the login, are accepted.
C4_TwoFaLoginReturnsRequires2Fa ==
  [][/\ (/\ last'.op = "login"
         /\ \E u \in users : /\ u.email = last'.email
                             /\ u.requires_2fa
                             /\ u.password_hash = [alg |-> "argon2id", pw |-> last'.password])
          => /\ last'.result = "Requires2Fa"
             /\ last'.token = NoToken
             /\ issued' = issued
             /\ last'.sent = 1
             /\ {c \in codes' : c.email = last'.email}
                  = {[email |-> last'.email, id |-> last'.attempt, code |-> last'.code]}
     /\ (/\ last.op = "login"
         /\ last.result = "Requires2Fa"
         /\ last'.op \in {"verify_2fa", "Verify2FaUseCase"}
         /\ last'.email = last.email
         /\ last'.attempt = last.attempt
         /\ last'.code = last.code)
          => (last'.result = "Ok" /\ last'.token \in issued')
    ]_vars

\* C4 (amended): as above, except that the login returns Requires2Fa when the
\* email is delivered and the email error when sending fails; in both cases no
\* token is issued, one challenge is stored and one email send is made.
C4_TwoFaLoginChallenge ==
  [][/\ (/\ last'.op = "login"
         /\ \E u \in users : /\ u.email = last'.email
                             /\ u.requires_2fa
                             /\ u.password_hash = [alg |-> "argon2id", pw |-> last'.password])
          => /\ last'.result = IF last'.flag THEN "Requires2Fa" ELSE "EmailError"
             /\ last'.token = NoToken
             /\ issued' = issued
             /\ last'.sent = 1
             /\ {c \in codes' : c.email = last'.email}
                  = {[email |-> last'.email, id |-> last'.attempt, code |-> last'.code]}
     /\ (/\ last.op = "login"
         /\ last.result = "Requires2Fa"
         /\ last'.op \in {"verify_2fa", "Verify2FaUseCase"}
         /\ last'.email = last.email
         /\ last'.attempt = last.attempt
         /\ last'.code = last.code)
          => (last'.result = "Ok" /\ last'.token \in issued')
    ]_vars

\* the mailed code of a 2FA login has just been accepted with its attempt id
C4_Witness ==
  /\ last.op \in {"verify_2fa", "Verify2FaUseCase"}
  /\ last.result = "Ok"
  /\ last.token \in issued
  /\ \E u \in users : u.email = last.email /\ u.requires_2fa
  /\ nextAttempt = last.attempt + 1

\* C5: Verify2FA succeeds exactly when a challenge is pending for the email and
\* the submitted attempt id and code both equal the stored ones, and a token
\* is issued exactly on success; a pending challenge with another attempt id
\* gives the attempt-id error, a matching attempt id with another code gives
\* the code error, and neither issues a token.
C5_Verify2FaIffMatch ==
  [][last'.op \in {"verify_2fa", "Verify2FaUseCase"}
     => LET pending == {c \in codes : c.email = last'.email}
        IN /\ (last'.result = "Ok")
                <=> (\E c \in pending : c.id = last'.attempt /\ c.code = last'.code)
           /\ (last'.result = "Ok") <=> (last'.token # NoToken)
           /\ last'.token # NoToken
                => (last'.token \in issued' /\ last'.token.sub = last'.email)
           /\ last'.result # "Ok" => issued' = issued
           /\ (pending # {} /\ \A c \in pending : c.id # last'.attempt)
                => last'.result = IF last'.op = "Verify2FaUseCase"
                                  THEN "InvalidLoginAttemptId" ELSE "InvalidAttemptId"
           /\ (\E c \in pending : c.id = last'.attempt /\ c.code # last'.code)
                => last'.result = IF last'.op = "Verify2FaUseCase"
                                  THEN "InvalidTwoFaCode" ELSE "Invalid2FACode"
    ]_vars

\* the use case has refused a wrong code submitted with the right attempt id
C5_Witness ==
  /\ last.op = "Verify2FaUseCase"
  /\ last.result = "InvalidTwoFaCode"
  /\ \E c \in codes : c.email = last.email /\ c.id = last.attempt /\ c.code # last.code

\* C6: a successful Verify2FA removes the pending challenge of the email; a
\* Verify2FA for an email with nothing pending fails with UserNotFound and
\* issues no token; and a challenge becomes pending for an email only by a
\* login for that email.
C6_ChallengeSingleUse ==
  [][/\ (last'.op \in {"verify_2fa", "Verify2FaUseCase"} /\ last'.result = "Ok")
          => ~(\E c \in codes' : c.email = last'.email)
     /\ (/\ last'.op \in {"verify_2fa", "Verify2FaUseCase"}
         /\ ~(\E c \in codes : c.email = last'.email))
          => (last'.result = "UserNotFound" /\ last'.token = NoToken /\ issued' = issued)
     /\ \A e \in Emails :
          (~(\E c \in codes : c.email = e) /\ (\E c \in codes' : c.email = e))
            => (last'.op = "login" /\ last'.email = e)
    ]_vars

\* a 2FA user holds a token from a completed verification, and a further
\* verification with an attempt id issued earlier finds nothing pending
C6_Witness ==
  /\ last.op \in {"verify_2fa", "Verify2FaUseCase"}
  /\ last.result = "UserNotFound"
  /\ last.attempt < nextAttempt
  /\ \E u \in users : u.email = last.email /\ u.requires_2fa
  /\ \E t \in issued : t.sub = last.email
  /\ ~(\E c \in codes : c.email = last.email)

C8_LoginOutcome ==
  (/\ last.op = "login"
   /\ last.email \in Emails
   /\ last.password \in Passwords)
    => /\ \A u \in users :
            (u.email = last.email /\ ~u.requires_2fa)
              => IF u.password_hash = [alg |-> "argon2id", pw |-> last.password]
                 THEN /\ last.result = "Success"
                      /\ last.token \in issued
                      /\ last.token.sub = last.email
                 ELSE last.result = "IncorrectPassword" /\ last.token = NoToken
       /\ ~(\E u \in users : u.email = last.email)
            => (last.result = "UserNotFound" /\ last.token = NoToken)

\* a user without 2FA has been refused with a wrong password
C8_Witness ==
  /\ last.op = "login"
  /\ last.result = "IncorrectPassword"
  /\ \E u \in users : /\ u.email = last.email
                      /\ ~u.requires_2fa
                      /\ u.password_hash.pw # last.password
                      /\ last.password \in Passwords

\* C9: elevate returns an elevated token exactly when the user table holds the
\* email with that password at that moment; with an unknown email or a wrong
\* password it returns the error and issues nothing, whatever tokens exist.
C9_ElevateNeedsPassword ==
  [][last'.op = "elevate"
     => LET known == \E u \in users : u.email = last'.email
            authentic == \E u \in users :
                           /\ u.email = last'.email
                           /\ u.password_hash = [alg |-> "argon2id", pw |-> last'.password]
        IN /\ (last'.token # NoToken) <=> authentic
           /\ last'.token # NoToken
                => /\ last'.result = "Ok"
                   /\ last'.token \in issued'
                   /\ last'.token.sig = elevated_jwt_config.jwt_secret
                   /\ last'.token.sub = last'.email
           /\ ~known => last'.result = "UserNotFound"
           /\ (known /\ ~authentic) => last'.result = "IncorrectPassword"
           /\ ~authentic => issued' = issued
    ]_vars

\* elevate is refused for a wrong password while a valid regular token of the
\* same user is outstanding
C9_Witness ==
  /\ last.op = "elevate"
  /\ last.result = "IncorrectPassword"
  /\ \E t \in issued : /\ t.sig = jwt_config.jwt_secret
                       /\ t.sub = last.email
                       /\ ~(\E b \in banned : b.token = t)

C11_KindsIndependent ==
  /\ [][last'.op \in {"handle_logout", "LogoutUseCase"}
        => LET struck == {b.token : b \in banned' \ banned}
           IN \A t \in issued, cfg \in {jwt_config, elevated_jwt_config} :
                (\A k \in struck : k.sig # t.sig)
                  => validate_auth_token(t, banned', cfg, now').result
                       = validate_auth_token(t, banned, cfg, now).result
       ]_vars
  /\ [](\A t \in issued \cup {b.token : b \in banned},
           cfg \in {jwt_config, elevated_jwt_config} :
          validate_auth_token(t, banned, cfg, now).result = "Ok"
            => t.sig = cfg.jwt_secret)
  /\ []((last.op = "validate" /\ last.result = "Ok")
          => \E cfg \in {jwt_config, elevated_jwt_config} :
               cfg.jwt_cookie_name = last.kind /\ cfg.jwt_secret = last.presented.sig)

\* a regular token has just been banned while an elevated token with the same
\* subject and expiry is outstanding and still validates
C11_Witness ==
  /\ last.op = "LogoutUseCase"
  /\ last.presented.sig = jwt_config.jwt_secret
  /\ \E b \in banned : b.token = last.presented
  /\ \E e \in issued : /\ e.sig = elevated_jwt_config.jwt_secret
                       /\ e.sub = last.presented.sub
                       /\ e.exp = last.presented.exp
                       /\ ~(\E b \in banned : b.token = e)
                       /\ e.exp >= now

C13_SignupDuplicate ==
  /\ [][last'.op = "register"
        => IF \E u \in users : u.email = last'.email
           THEN last'.result = "UserAlreadyExists" /\ users' = users
           ELSE /\ last'.result = "Ok"
                /\ users' = users \cup
                     {[email |-> last'.email,
                       password_hash |-> [alg |-> "argon2id", pw |-> last'.password],
                       requires_2fa |-> last'.flag]}
       ]_vars
  /\ [](\A e \in Emails : Cardinality({u \in users : u.email = e}) <= 1)

\* a second signup with another password and 2FA flag has been refused and
\* the stored user is still the first one
C13_Witness ==
  /\ last.op = "register"
  /\ last.result = "UserAlreadyExists"
  /\ \E u \in users : /\ u.email = last.email
                      /\ u.password_hash.pw # last.password
                      /\ u.requires_2fa # last.flag

\* C14: among the signups for one email that have returned, exactly one has
\* returned success, every other has returned UserAlreadyExists, and the user
\* stored for the email is the one the successful signup submitted.
C14_OneSignupWins ==
  \A e \in Emails :
    LET returned == {i \in SignupIds : /\ inflight.reqs[i].pc = "done"
                                       /\ inflight.reqs[i].user.email = e}
        won == {i \in returned : inflight.reqs[i].result = "Ok"}
    IN returned # {}
         => /\ Cardinality(won) = 1
            /\ \A i \in returned \ won : inflight.reqs[i].result = "UserAlreadyExists"
            /\ {u \in users : u.email = e} = {inflight.reqs[i].user : i \in won}

\* two signups for the same email with different passwords were in flight
\* together; one has won and the other was refused
C14_Witness ==
  \E i \in SignupIds, j \in SignupIds :
    /\ i # j
    /\ inflight.reqs[i].pc = "done" /\ inflight.reqs[j].pc = "done"
    /\ inflight.reqs[i].user.email = inflight.reqs[j].user.email
    /\ inflight.reqs[i].user # inflight.reqs[j].user
    /\ inflight.reqs[j].raced
    /\ inflight.reqs[i].result = "Ok"
    /\ inflight.reqs[j].result = "UserAlreadyExists"

\* C15: a validation that returns claims was of a token whose expiry
\* timestamp is not earlier than the current time.
C15_ExpiredNeverValid ==
  (last.op = "validate" /\ last.result = "Ok") => last.presented.exp >= now

\* C16: a validation of a token that is structurally malformed, or whose
\* signature is not the one of the configured secret, fails with the token
\* error, returns no claims and makes no query to the ban store.
C16_BadTokenFailsBeforeBanLookup ==
  \A cfg \in {jwt_config, elevated_jwt_config} :
    (/\ last.op = "validate"
     /\ last.kind = cfg.jwt_cookie_name
     /\ last.presented # NoCookie
     /\ \/ last.presented = InvalidTokenString
        \/ last.presented.sig # cfg.jwt_secret)
      => /\ last.result = "TokenError"
         /\ last.email = "none" /\ last.exp = 0
         /\ last.lookups = 0

\* an unexpired token signed with the other secret, and present in the ban
\* store, is validated and refused with the token error
C16_Witness ==
  /\ last.op = "validate"
  /\ last.kind = "elevated_jwt"
  /\ last.presented \in issued
  /\ last.presented.sig = jwt_config.jwt_secret
  /\ last.presented.exp >= now
  /\ \E b \in banned : b.token = last.presented
  /\ last.result = "TokenError"
  /\ last.lookups = 0

C19_OnlyExpiryOrBanChangesValidity ==
  [][last'.op \in {"register", "login", "verify_2fa", "Verify2FaUseCase", "elevate",
                   "change_password", "delete_account"}
       => \A t \in issued, cfg \in {jwt_config, elevated_jwt_config} :
            validate_auth_token(t, banned', cfg, now')
              = validate_auth_token(t, banned, cfg, now)]_vars

\* the account has been deleted with an elevated token while a regular token
\* of the same user is issued; both tokens still validate, and another token
\* is banned
C19_Witness ==
  /\ last.op = "delete_account"
  /\ last.result = "Ok"
  /\ ~(\E u \in users : u.email = last.email)
  /\ validate_auth_token(last.elevated, banned, elevated_jwt_config, now).result = "Ok"
  /\ \E t \in issued :
       /\ t.sub = last.email
       /\ validate_auth_token(t, banned, jwt_config, now).result = "Ok"
  /\ banned # {}

\* C20: a change of password for an email that has no user returns
\* UserNotFound and leaves the user table unchanged, with either store.
C20_ChangePasswordAbsentUser ==
  [][(/\ last'.op = "ChangePasswordUseCase"
      /\ ~(\E u \in users : u.email = last'.email))
       => (last'.result = "UserNotFound" /\ users' = users)]_vars

\* C21: after a change of password has succeeded, authentication of that
\* email succeeds with the new password and returns IncorrectPassword with
\* every other password, and every other user's record is as it was.
C21_ChangePasswordTakesEffect ==
  [][(last'.op = "ChangePasswordUseCase" /\ last'.result = "Ok")
       => /\ authenticate_user(users', last'.email, last'.password).result = "Ok"
          /\ \A p \in Passwords \ {last'.password} :
               authenticate_user(users', last'.email, p).result = "IncorrectPassword"
          /\ {u \in users' : u.email # last'.email}
               = {u \in users : u.email # last'.email}]_vars

\* C22: deletion of the account of a stored email succeeds and removes that
\* user and no other; while no user is stored for an email, login, elevation,
\* change of password and deletion of the account for it return UserNotFound
\* and leave the user table as it was.
C22_DeleteAccount ==
  /\ [][(last'.op = "DeleteAccountUseCase" /\ \E u \in users : u.email = last'.email)
          => /\ last'.result = "Ok"
             /\ users' = {u \in users : u.email # last'.email}]_vars
  /\ [][(/\ last'.op \in {"login", "elevate", "ChangePasswordUseCase",
                          "DeleteAccountUseCase"}
         /\ ~(\E u \in users : u.email = last'.email))
          => /\ last'.result = "UserNotFound"
             /\ users' = users]_vars

\* C23: a call of the code store's validate returns one of Ok, UserNotFound,
\* InvalidAttemptId and Invalid2FACode and leaves the pending challenge of
\* every email as it was; a verification that fails leaves it so as well.
C23_ValidateKeepsChallenges ==
  /\ [][last'.op = "TwoFaCodeStore_validate"
          => /\ codes' = codes
             /\ last'.result \in {"Ok", "UserNotFound", "InvalidAttemptId", "Invalid2FACode"}
             /\ (last'.result = "Ok")
                  <=> \E c \in codes : /\ c.email = last'.email
                                       /\ c.id = last'.attempt
                                       /\ c.code = last'.code]_vars
  /\ [][(last'.op \in {"verify_2fa", "Verify2FaUseCase"} /\ last'.result # "Ok")
          => codes' = codes]_vars

\* validate has refused a wrong code for the attempt id of a pending
\* challenge, and the challenge is still pending
C23_Witness ==
  /\ last.op = "TwoFaCodeStore_validate"
  /\ last.result = "Invalid2FACode"
  /\ \E c \in codes : c.email = last.email /\ c.id = last.attempt /\ c.code # last.code

C25_MalformedHashFailsClosed ==
  (/\ last.op = "authenticate_user"
   /\ last.backend = "up"
   /\ \E u \in users : u.email = last.email /\ u.password_hash.alg # "argon2id")
    => (last.result = "IncorrectPassword" /\ ~last.flag)

\* the relational store has refused a candidate equal to the text stored in
\* the malformed hash column
C25_Witness ==
  /\ last.op = "authenticate_user"
  /\ last.backend = "up"
  /\ last.kind = "PostgresUserStore"
  /\ last.result = "IncorrectPassword"
  /\ \E u \in users :
       /\ u.email = last.email
       /\ u.password_hash = [alg |-> "plaintext", pw |-> last.password]

\* C26: a login during which the sending of the email failed has returned the
\* email error and no token, and has called send_email once.
C26_EmailFailureNotRetried ==
  (last.op = "login" /\ last.sent > 0 /\ ~last.flag)
    => /\ last.result = "EmailError"
       /\ last.token = NoToken
       /\ last.sent = 1

\* a 2FA login whose email could not be sent has returned the email error;
\* its challenge is stored
C26_Witness ==
  /\ last.op = "login"
  /\ ~last.flag
  /\ last.result = "EmailError"
  /\ last.sent = 1
  /\ \E u \in users : u.email = last.email /\ u.requires_2fa
  /\ \E c \in codes : c.email = last.email /\ c.id = last.attempt

\* C27: an authentication during which the database failed returns
\* UnexpectedError.
C27_BackendFailureIsUnexpectedError ==
  (last.op = "authenticate_user" /\ last.backend = "down")
    => last.result = "UnexpectedError"

\* C28: the cookie returned by a successful login or two-factor verification
\* has the configured cookie name, which is not the signing secret, and the
\* issued token as its value.
C28_CookieNameAndValue ==
  (/\ last.op \in {"JwtAuthenticator_login", "JwtAuthenticator_verify_2fa"}
   /\ last.result \in {"Success", "Ok"})
    => /\ last.cookie.name = jwt_config.jwt_cookie_name
       /\ last.cookie.name # jwt_config.jwt_secret
       /\ last.cookie.value = last.token
       /\ last.token \in issued

\* C29: a call of generate_auth_token at time now with TTL t either returns a
\* token whose expiry is now + t and later than now, or, when now + t is out
\* of the representable range, returns UnexpectedError and no token.
C29_ExpiryInFutureOrError ==
  last.op = "generate_auth_token"
    => IF last.result = "Ok"
       THEN /\ last.token.exp = now + last.ttl
            /\ last.token.exp > now
       ELSE /\ last.result = "UnexpectedError"
            /\ last.token = NoToken
            /\ \/ last.ttl > MaxDurationSeconds
               \/ last.ttl < 0 - MaxDurationSeconds
               \/ now + last.ttl > MaxDateTimeSeconds
               \/ now + last.ttl < 0

\* C29 (amended): the same for every call with a positive TTL.
C29_ExpiryInFutureOrErrorPositiveTtl ==
  (last.op = "generate_auth_token" /\ last.ttl > 0)
    => IF last.result = "Ok"
       THEN /\ last.token.exp = now + last.ttl
            /\ last.token.exp > now
       ELSE /\ last.result = "UnexpectedError"
            /\ last.token = NoToken
            /\ \/ last.ttl > MaxDurationSeconds
               \/ now + last.ttl > MaxDateTimeSeconds

\* a TTL that is a valid duration was added to a clock late enough for the
\* sum to leave the range of timestamps, and the call returned the error
C29_Witness ==
  /\ last.op = "generate_auth_token"
  /\ last.ttl > 0
  /\ last.ttl <= MaxDurationSeconds
  /\ now + last.ttl > MaxDateTimeSeconds
  /\ last.result = "UnexpectedError"
  /\ last.token = NoToken

\* C30: the verify-token handler answers valid only for an issued token signed
\* with the regular secret, not expired and not banned; the
\* verify-elevated-token handler only for such a token of the elevated secret.
C30_VerifyHandlersValidate ==
  /\ (last.op = "handle_verify_token" /\ last.result = "valid")
       => /\ last.presented \in issued
          /\ last.presented.sig = jwt_config.jwt_secret
          /\ last.presented.exp >= now
          /\ ~(\E b \in banned : b.token = last.presented)
  /\ (last.op = "handle_verify_elevated_token" /\ last.result = "valid")
       => /\ last.elevated \in issued
          /\ last.elevated.sig = elevated_jwt_config.jwt_secret
          /\ last.elevated.exp >= now
          /\ ~(\E b \in banned : b.token = last.elevated)

\* C32: no operation leaves a partial mutation observable: a login of a 2FA
\* user that returns an error because the email could not be sent leaves the
\* pending-2FA table exactly as it was before that login.
C32_FailedLoginLeavesChallenges ==
  [][(last'.op = "login" /\ last'.result = "EmailError") => codes' = codes]_vars

\* C33: a login stores a challenge and sends an email only after
\* authenticate_user succeeded for a user with requires_2fa = true: a login
\* that fails authentication and a successful login of a non-2FA user leave
\* the pending-2FA table unchanged and send no email; no login changes the
\* user table or the ban set.
C33_LoginChallengesOnlyAfterAuthentication ==
  [][last'.op = "login"
       => /\ users' = users
          /\ banned' = banned
          /\ (codes' # codes \/ last'.sent # 0)
               => \E u \in users : /\ u.email = last'.email
                                   /\ u.requires_2fa
                                   /\ u.password_hash
                                        = [alg |-> "argon2id", pw |-> last'.password]
          /\ last'.result \in {"UserError", "UserNotFound", "IncorrectPassword", "Success"}
               => (codes' = codes /\ last'.sent = 0)
    ]_vars

\* a 2FA user with a pending challenge has just failed a login with a wrong
\* password while a token is banned, and the challenge is still pending
C33_Witness ==
  /\ last.op = "login"
  /\ last.result = "IncorrectPassword"
  /\ last.sent = 0
  /\ \E u \in users : u.email = last.email /\ u.requires_2fa
  /\ \E c \in codes : c.email = last.email
  /\ banned # {}

\* C34: of two Verify2FA requests carrying the same correct (email,
\* attempt id, code) that run concurrently, at most one returns a token in
\* every interleaving of their validate and delete steps, and the other fails
\* with the nothing-pending error.
C34_OneConcurrentVerifyWins ==
  \A i \in VerifyIds, j \in VerifyIds :
    LET a == inflight.verifs[i]
        b == inflight.verifs[j]
    IN (/\ i # j
        /\ a.pc = "done" /\ b.pc = "done"
        /\ a.checked /\ b.checked
        /\ a.email = b.email /\ a.attempt = b.attempt /\ a.code = b.code)
         => /\ ~(a.result = "Ok" /\ b.result = "Ok")
            /\ a.result = "Ok" => b.result = "UserNotFound"

\* C35: when a Verify2FA for an email runs concurrently with a new 2FA login
\* for it, the delete step of the verification removes only the challenge it
\* validated, and no token is issued on the strength of a challenge that had
\* been superseded by the newer login.
C35_DeleteRemovesValidatedChallenge ==
  \A i \in VerifyIds :
    LET r == inflight.verifs[i]
    IN (r.pc = "done" /\ r.result = "Ok")
         => r.deleted = [email |-> r.email, id |-> r.attempt, code |-> r.code]

\* C36: two-factor authentication cannot be bypassed through step-up: for a
\* user with requires_2fa = true an elevated token is issued only to a caller
\* who has completed 2FA, so that a valid, unbanned regular token of that user
\* exists when the elevated token is issued; email and password alone never
\* yield an elevated token for such a user.
C36_ElevateRequiresCompleted2Fa ==
  [][(/\ last'.op = "elevate"
      /\ last'.token # NoToken
      /\ \E u \in users : u.email = last'.email /\ u.requires_2fa)
       => \E r \in issued : /\ r.sig = jwt_config.jwt_secret
                            /\ r.sub = last'.email
                            /\ r.exp >= now
                            /\ ~(\E b \in banned : b.token = r)
    ]_vars

\* C37: the cookie-based logout route validates the regular token before
\* banning anything: when the regular token is missing, malformed, expired or
\* already banned, logout returns an error and the ban set is unchanged (the
\* elevated token, if presented, is not banned either), so a second logout
\* with the same token fails.
C37_LogoutValidatesFirst ==
  [][/\ (/\ last'.op = "logout"
         /\ \/ last'.presented = NoCookie
            \/ last'.presented \notin issued
            \/ last'.presented.sig # jwt_config.jwt_secret
            \/ last'.presented.exp < now
            \/ \E b \in banned : b.token = last'.presented)
          => (last'.result # "Ok" /\ banned' = banned)
     /\ (/\ last.op = "logout" /\ last.result = "Ok"
         /\ last'.op = "logout" /\ last'.presented = last.presented)
          => last'.result # "Ok"
    ]_vars

\* C38: set_new_password changes only the password credential of the
\* addressed user: that user's email and requires_2fa flag are the same before
\* and after, and every other User record is unchanged, so a 2FA user still
\* gets Requires2Fa at the next login.
C38_SetNewPasswordKeepsTheRest ==
  [][/\ last'.op = "ChangePasswordUseCase"
          => /\ \A u \in users : u.email # last'.email => u \in users'
             /\ \A v \in users' : v.email # last'.email => v \in users
             /\ \A u \in users : u.email = last'.email
                  => \E v \in users' : v.email = u.email /\ v.requires_2fa = u.requires_2fa
             /\ \A v \in users' : v.email = last'.email
                  => \E u \in users : u.email = v.email /\ u.requires_2fa = v.requires_2fa
             /\ Cardinality(users') = Cardinality(users)
     /\ (/\ last.op = "ChangePasswordUseCase"
         /\ last.result = "Ok"
         /\ \E u \in users : u.email = last.email /\ u.requires_2fa
         /\ last'.op = "login"
         /\ last'.email = last.email
         /\ last'.password = last.password)
          => last'.result = "Requires2Fa"
    ]_vars

\* the password of a 2FA user has just been changed while another account
\* exists; the user is still a 2FA user and holds the new password
C38_Witness ==
  /\ last.op = "ChangePasswordUseCase"
  /\ last.result = "Ok"
  /\ \E u \in users : /\ u.email = last.email
                      /\ u.requires_2fa
                      /\ u.password_hash = [alg |-> "argon2id", pw |-> last.password]
  /\ \E u \in users : u.email # last.email

\* C39: the two implementations of 2FA verification are equivalent: from the
\* same pending-2FA table and the same (email, attempt id, code), every step
\* of JwtScheme::verify_2fa ends as Verify2FaUseCase's read, compare and
\* delete end from that table, and every step of Verify2FaUseCase::execute
\* ends as the store's validate and delete end: the same inputs are accepted,
\* failures are of the same class (nothing pending, attempt-id mismatch before
\* code mismatch) and the table is left in the same state.
C39_Verify2FaImplementationsAgree ==
  [][/\ last'.op = "verify_2fa"
          => LET r == Verify2FaUseCase_compare(codes, last'.email, last'.attempt, last'.code)
                 d == two_fa_delete(codes, last'.email)
             IN /\ Verify2FaErrorClass(last'.result)
                     = Verify2FaErrorClass(IF r # "Ok" THEN r ELSE d.result)
                /\ codes' = IF r = "Ok" THEN d.codes ELSE codes
                /\ (last'.token # NoToken) <=> (r = "Ok" /\ d.result = "Ok")
     /\ last'.op = "Verify2FaUseCase"
          => LET r == two_fa_validate(codes, last'.email, last'.attempt, last'.code)
                 d == two_fa_delete(codes, last'.email)
             IN /\ Verify2FaErrorClass(last'.result)
                     = Verify2FaErrorClass(IF r # "Ok" THEN r ELSE d.result)
                /\ codes' = IF r = "Ok" THEN d.codes ELSE codes
                /\ (last'.token # NoToken) <=> (r = "Ok" /\ d.result = "Ok")
     /\ last'.op \in {"verify_2fa", "Verify2FaUseCase"}
          => Verify2FaErrorClass(last'.result) # "unexpected"
    ]_vars

\* a verification whose attempt id and code both differ from the pending
\* challenge has just been refused for the attempt id
C39_Witness ==
  /\ last.op \in {"verify_2fa", "Verify2FaUseCase"}
  /\ last.result \in {"InvalidAttemptId", "InvalidLoginAttemptId"}
  /\ \E c \in codes : c.email = last.email /\ c.id # last.attempt /\ c.code # last.code

====